---- MODULE Spec2Model ----
(***************************************************************************)
(* Model of the two-phase PDF extraction pipeline of api.py:               *)
(* find_relevant_pages -> extract_page_content -> prepare_snippets ->      *)
(* call_ai per keyword -> INSERT into extracted_reports.                   *)
(*                                                                         *)
(* A Python str is a sequence of one-character strings.  None is the       *)
(* one-element sequence <<"<None>">>, which no alphabet contains.          *)
(***************************************************************************)
EXTENDS Integers, Sequences, FiniteSets, TLC

VARIABLES pc, doc, hit_pages, raw_text, table_rows, snippets, kwi, results,
          calls, db, outcome, stages, call, ret

vars == <<pc, doc, hit_pages, raw_text, table_rows, snippets, kwi, results,
          calls, db, outcome, stages, call, ret>>

\* ------------------------------------------------------------------------
\* Bounds of the model
\* ------------------------------------------------------------------------
MaxPages == 2
MaxPageLen == 2
MaxHitLen == 3
MaxTextLen == 4
MaxRadius == 2
MaxWords == 2
MaxRowCount == 2
MaxBudget == 3
MaxReplyLen == 3

\* ------------------------------------------------------------------------
\* Python built-ins
\* ------------------------------------------------------------------------
None == <<"<None>">>

Min(a, b) == IF a < b THEN a ELSE b

Max(a, b) == IF a > b THEN a ELSE b

\* x or ""  (None and "" are both falsy)
OrEmpty(x) == IF x = None THEN <<>> ELSE x

\* str.lower() on one character of the alphabets used here
LowerChar(c) ==
    CASE c = "T" -> "t"
      [] c = "A" -> "a"
      [] c = "L" -> "l"
      [] c = "P" -> "p"
      [] OTHER -> c

\* str.lower()
Lower(s) == [i \in 1..Len(s) |-> LowerChar(s[i])]

\* sub in s
Contains(s, sub) ==
    \E i \in 0..(Len(s) - Len(sub)) : SubSeq(s, i + 1, i + Len(sub)) = sub

\* s[start:end] with Python's treatment of negative and out-of-range bounds
PySlice(s, start, end) ==
    LET n  == Len(s)
        lo == IF start < 0 THEN Max(0, n + start) ELSE Min(start, n)
        hi == IF end < 0 THEN Max(0, n + end) ELSE Min(end, n)
    IN  IF lo >= hi THEN <<>> ELSE SubSeq(s, lo + 1, hi)

RECURSIVE Join(_, _)
\* sep.join(parts)
Join(parts, sep) ==
    IF Len(parts) = 0 THEN <<>>
    ELSE IF Len(parts) = 1 THEN parts[1]
    ELSE parts[1] \o sep \o Join(Tail(parts), sep)

\* characters str.strip() removes; json's WHITESPACE is only " \t\n\r"
PyWhitespace == {" ", "\t", "\n", "\r", "\f"}

JsonWhitespace == {" ", "\t", "\n", "\r"}

RECURSIVE LStrip(_)
LStrip(s) ==
    IF Len(s) > 0 /\ s[1] \in PyWhitespace THEN LStrip(Tail(s)) ELSE s

RECURSIVE RStrip(_)
RStrip(s) ==
    IF Len(s) > 0 /\ s[Len(s)] \in PyWhitespace
    THEN RStrip(SubSeq(s, 1, Len(s) - 1)) ELSE s

\* str.strip()
Strip(s) == RStrip(LStrip(s))

\* ------------------------------------------------------------------------
\* Configuration
\* ------------------------------------------------------------------------
\* The fixed keyword list, abbreviated: "Ta" for "Total Assets", "Tl" for
\* "Total Liabilities", "P" for "Profit before Tax".  As in the source no
\* keyword is a substring of another and every keyword has upper-case letters.
KEYWORDS == << <<"T", "a">>, <<"T", "l">>, <<"P">> >>

DefaultWindowChars == 200

DefaultMaxSnippets == 20

\* ------------------------------------------------------------------------
\* Phase 1: find_relevant_pages
\* ------------------------------------------------------------------------
PageMatchesCaseSensitive(text, keyset) ==
    \E k \in 1..Len(keyset) : Contains(text, keyset[k])

\* any(k in text.lower() for k in keyset)
PageMatches(text, keyset) ==
    \E k \in 1..Len(keyset) : Contains(Lower(text), keyset[k])

RECURSIVE scan_loop(_, _, _, _)
\* for i, page in enumerate(doc): ... hits.append(i)
scan_loop(pages, keyset, i, hits) ==
    IF i >= Len(pages) THEN hits
    ELSE LET text == OrEmpty(pages[i + 1].text)
         IN  scan_loop(pages, keyset, i + 1,
                       IF PageMatches(text, keyset) THEN Append(hits, i)
                       ELSE hits)

find_relevant_pages(pages, keywords) ==
    LET keyset == [k \in 1..Len(keywords) |-> Lower(keywords[k])]
    IN  scan_loop(pages, keyset, 0, <<>>)

\* ------------------------------------------------------------------------
\* Phase 2: extract_page_content
\* ------------------------------------------------------------------------
InRangeOffByOne(idx, n) == idx <= n

\* if idx < len(pdf.pages)
InRange(idx, n) == idx < n

\* pdf.pages[idx] raises IndexError outside [-n, n)
IndexError(idx, n) == idx >= n \/ idx < -n

\* pdf.pages[idx]: the 0-based number of the page a Python index denotes
PageNumber(idx, n) == IF idx < 0 THEN n + idx ELSE idx

\* " | ".join(cell or "" for cell in row)
FlattenRow(row) ==
    Join([c \in 1..Len(row) |-> OrEmpty(row[c])], <<" ", "|", " ">>)

RECURSIVE FlattenTables(_)
\* for table in page.extract_tables(): for row in table: table_rows.append(..)
FlattenTables(tables) ==
    IF Len(tables) = 0 THEN <<>>
    ELSE [r \in 1..Len(tables[1]) |-> FlattenRow(tables[1][r])]
         \o FlattenTables(Tail(tables))

RECURSIVE extract_loop(_, _, _, _)
\* acc.blocks is the list raw_text, acc.table_rows the list table_rows,
\* acc.parsed the pages named by the "Parsing page %d" log lines
extract_loop(pages, hits, j, acc) ==
    IF j > Len(hits) THEN acc
    ELSE LET idx == hits[j]
             n   == Len(pages)
         IN  IF ~InRange(idx, n) THEN extract_loop(pages, hits, j + 1, acc)
             ELSE IF IndexError(idx, n) THEN [acc EXCEPT !.raised = TRUE]
             ELSE LET page == pages[PageNumber(idx, n) + 1]
                  IN  extract_loop(pages, hits, j + 1,
                        [acc EXCEPT
                           !.parsed = Append(@, PageNumber(idx, n)),
                           !.blocks = Append(@, OrEmpty(page.text)),
                           !.table_rows = @ \o FlattenTables(page.tables)])

extract_page_content(pages, hits) ==
    LET acc == extract_loop(pages, hits, 1,
                 [raised |-> FALSE, parsed |-> <<>>, blocks |-> <<>>,
                  table_rows |-> <<>>])
    IN  [raised |-> acc.raised, parsed |-> acc.parsed, blocks |-> acc.blocks,
         raw_text |-> Join(acc.blocks, <<"\n">>),
         table_rows |-> acc.table_rows]

\* ------------------------------------------------------------------------
\* Snippet assembly: find_contexts, find_table_rows, prepare_snippets
\* ------------------------------------------------------------------------
RECURSIVE finditer(_, _, _, _)
\* re.finditer(re.escape(keyword), text, re.IGNORECASE): the start offsets of
\* the non-overlapping matches, left to right; after an empty match the scan
\* moves on by one character
finditer(text, keyword, p, acc) ==
    LET k == Len(keyword)
    IN  IF p + k > Len(text) THEN acc
        ELSE IF Lower(SubSeq(text, p + 1, p + k)) = Lower(keyword)
             THEN finditer(text, keyword, IF k = 0 THEN p + 1 ELSE p + k,
                           Append(acc, p))
             ELSE finditer(text, keyword, p + 1, acc)

WindowStartUnclamped(m_start, window_chars) == m_start - window_chars

\* start = max(0, m.start() - window_chars)
WindowStart(m_start, window_chars) == Max(0, m_start - window_chars)

\* end = m.end() + window_chars
WindowEnd(m_end, window_chars) == m_end + window_chars

find_contexts(text, keyword, window_chars) ==
    LET ms == finditer(text, keyword, 0, <<>>)
    IN  [i \in 1..Len(ms) |->
           PySlice(text, WindowStart(ms[i], window_chars),
                   WindowEnd(ms[i] + Len(keyword), window_chars))]

find_table_rows_unfiltered(rows, keyword) == rows

\* [row for row in table_rows if keyword.lower() in row.lower()]
find_table_rows(rows, keyword) ==
    LET Hit(row) == Contains(Lower(row), Lower(keyword))
    IN  SelectSeq(rows, Hit)

BudgetReachedStrict(count, max_snippets) == count > max_snippets

\* if len(snippets) >= max_snippets: break
BudgetReached(count, max_snippets) == count >= max_snippets

RECURSIVE snippet_loop(_, _, _, _, _)
\* for kw in KEYWORDS: extend, extend, break on budget.  The result holds the
\* accumulated list and the number of keywords the loop body ran for.
snippet_loop(text, rows, max_snippets, k, acc) ==
    IF k > Len(KEYWORDS) THEN [snippets |-> acc, keywords_run |-> k - 1]
    ELSE LET grown == acc
                      \o find_contexts(text, KEYWORDS[k], DefaultWindowChars)
                      \o find_table_rows(rows, KEYWORDS[k])
         IN  IF BudgetReached(Len(grown), max_snippets)
             THEN [snippets |-> grown, keywords_run |-> k]
             ELSE snippet_loop(text, rows, max_snippets, k + 1, grown)

TruncateNone(list, max_snippets) == list

\* snippets[:max_snippets]
Truncate(list, max_snippets) == PySlice(list, 0, max_snippets)

prepare_snippets(text, rows, max_snippets) ==
    LET loop == snippet_loop(text, rows, max_snippets, 1, <<>>)
    IN  [snippets |-> Truncate(loop.snippets, max_snippets),
         accumulated |-> loop.snippets,
         keywords_run |-> loop.keywords_run]

\* ------------------------------------------------------------------------
\* Metric resolution: call_ai
\* ------------------------------------------------------------------------
RECURSIVE SkipWhitespace(_, _)
\* json's WHITESPACE.match(s, p).end(); positions are 1-based
SkipWhitespace(s, p) ==
    IF p <= Len(s) /\ s[p] \in JsonWhitespace THEN SkipWhitespace(s, p + 1)
    ELSE p

RECURSIVE SkipDigits(_, _)
SkipDigits(s, p) ==
    IF p <= Len(s) /\ s[p] = "1" THEN SkipDigits(s, p + 1) ELSE p

RECURSIVE ValueEnd(_, _)
\* json scanner on the reply alphabet: a value starting at p is a number
\* (digits "1") or an array holding at most one value; the result is the
\* position after the value, or 0 for JSONDecodeError
ValueEnd(s, p) ==
    IF p > Len(s) THEN 0
    ELSE IF s[p] = "1" THEN SkipDigits(s, p)
    ELSE IF s[p] = "[" THEN
         LET q == SkipWhitespace(s, p + 1)
         IN  IF q <= Len(s) /\ s[q] = "]" THEN q + 1
             ELSE LET e == ValueEnd(s, q)
                      r == IF e = 0 THEN 0 ELSE SkipWhitespace(s, e)
                  IN  IF r # 0 /\ r <= Len(s) /\ s[r] = "]" THEN r + 1 ELSE 0
    ELSE 0

\* json.loads(text) succeeds: one value, then only whitespace up to the end
JsonLoads(text) ==
    LET e == ValueEnd(text, SkipWhitespace(text, 1))
    IN  e # 0 /\ SkipWhitespace(text, e) = Len(text) + 1

\* the object json.loads builds, as the value's tokens without whitespace
JsonValue(text) ==
    LET Token(c) == c \notin JsonWhitespace
    IN  SelectSeq(text, Token)

ReplyTextLStrip(content) == LStrip(content)

\* text = resp.choices[0].message.content.strip()
ReplyText(content) == Strip(content)

\* return result
ParsedRecord(text) ==
    [keys |-> {"parsed"}, error |-> "", raw |-> <<>>,
     parsed |-> JsonValue(text)]

\* return {"error": "Invalid JSON", "raw": text}
ErrorRecord(text) ==
    [keys |-> {"error", "raw"}, error |-> "Invalid JSON", raw |-> text,
     parsed |-> <<>>]

\* the f-string prompt, the instruction text abbreviated to its two parts
\* around the keyword
Prompt(kw, snips) ==
    <<"Extract the value, unit & year for '">> \o kw
    \o <<"' from the snippets below. Reply ONLY with JSON\n\n">>
    \o Join(snips, <<"\n", "-", "-", "-", "\n">>)

\* reply.kind = "raise": client.chat.completions.create raises;
\* reply.kind = "none": the completion has content None and .strip() raises
\* AttributeError; reply.kind = "text": reply.content is the completion
call_ai(kw, snips, reply) ==
    IF reply.kind # "text"
    THEN [raised |-> TRUE, prompt |-> Prompt(kw, snips),
          value |-> ErrorRecord(<<>>)]
    ELSE LET text == ReplyText(reply.content)
         IN  [raised |-> FALSE, prompt |-> Prompt(kw, snips),
              value |-> IF JsonLoads(text) THEN ParsedRecord(text)
                        ELSE ErrorRecord(text)]

\* ------------------------------------------------------------------------
\* The upload route (POST): one pipeline run
\* ------------------------------------------------------------------------
Strings(chars, n) == UNION {[1..k -> chars] : k \in 0..n}

Page(text, tables) == [text |-> text, tables |-> tables]

\* table rows as pdfplumber gives them: lists of cells, a cell text or None
RowLiabilities == << <<"T", "l">>, None, <<"1">> >>

RowFiller == << <<"x">> >>

RowAssets == << <<"t", "A">>, <<"1">> >>

\* pages a report can have: no extractable text, filler, keyword matches in
\* either case, a keyword only inside a table
PipelinePages ==
    { Page(None, <<>>),
      Page(<<"x", "x">>, <<>>),
      Page(<<"T", "a", "x">>, <<>>),
      Page(<<"t", "L">>, << <<RowLiabilities>> >>),
      Page(<<"x", "p">>, << <<RowFiller>>, <<RowAssets, RowFiller>> >>) }

\* an uploaded file: absent from the form, unreadable as PDF, or a document
Upload(file, ok, pages) == [file |-> file, ok |-> ok, pages |-> pages]

PipelineDocs ==
    { Upload(FALSE, FALSE, <<>>), Upload(TRUE, FALSE, <<>>) }
    \cup { Upload(TRUE, TRUE, ps) : ps \in Strings(PipelinePages, MaxPages) }

Reply(kind, content) == [kind |-> kind, content |-> content]

\* what the extraction service can do on one call
PipelineReplies ==
    { Reply("raise", <<>>), Reply("none", <<>>),
      Reply("text", <<"[", "1", "]">>), Reply("text", <<"x">>),
      Reply("text", <<" ", "x", "\f">>) }

NoResults == [k \in {} |-> ErrorRecord(<<>>)]

NoCall == [fn |-> "none"]

EmptyScanNever(hits) == FALSE

\* if not hit_pages
EmptyScan(hits) == Len(hits) = 0

Init ==
    /\ pc = "request"
    /\ doc \in PipelineDocs
    /\ hit_pages = <<>>
    /\ raw_text = <<>>
    /\ table_rows = <<>>
    /\ snippets = <<>>
    /\ kwi = 0
    /\ results = NoResults
    /\ calls = <<>>
    /\ db = <<>>
    /\ outcome = "pending"
    /\ stages = <<>>
    /\ call = NoCall
    /\ ret = NoCall

\* f = request.files.get('pdf'); if not f: flash, redirect
UploadNoFile ==
    /\ pc = "request"
    /\ ~doc.file
    /\ pc' = "done"
    /\ outcome' = "select_pdf"
    /\ UNCHANGED <<doc, hit_pages, raw_text, table_rows, snippets, kwi,
                   results, calls, db, stages, call, ret>>

\* fitz.open(pdf_path) raises inside find_relevant_pages
UploadOpenError ==
    /\ pc = "request"
    /\ doc.file /\ ~doc.ok
    /\ pc' = "raised"
    /\ outcome' = "error"
    /\ stages' = Append(stages, "scan")
    /\ UNCHANGED <<doc, hit_pages, raw_text, table_rows, snippets, kwi,
                   results, calls, db, call, ret>>

\* hit_pages = find_relevant_pages(pdf_path, KEYWORDS)
UploadScan ==
    /\ pc = "request"
    /\ doc.file /\ doc.ok
    /\ hit_pages' = find_relevant_pages(doc.pages, KEYWORDS)
    /\ stages' = Append(stages, "scan")
    /\ pc' = "scanned"
    /\ UNCHANGED <<doc, raw_text, table_rows, snippets, kwi, results, calls,
                   db, outcome, call, ret>>

\* if not hit_pages: flash("No relevant pages found."), redirect
UploadNoPages ==
    /\ pc = "scanned"
    /\ EmptyScan(hit_pages)
    /\ pc' = "done"
    /\ outcome' = "no_pages"
    /\ UNCHANGED <<doc, hit_pages, raw_text, table_rows, snippets, kwi,
                   results, calls, db, stages, call, ret>>

\* raw_text, table_rows = extract_page_content(pdf_path, hit_pages)
UploadExtract ==
    /\ pc = "scanned"
    /\ ~EmptyScan(hit_pages)
    /\ LET r == extract_page_content(doc.pages, hit_pages)
       IN  /\ raw_text' = r.raw_text
           /\ table_rows' = r.table_rows
           /\ pc' = IF r.raised THEN "raised" ELSE "extracted"
           /\ outcome' = IF r.raised THEN "error" ELSE outcome
    /\ stages' = Append(stages, "extract")
    /\ UNCHANGED <<doc, hit_pages, snippets, kwi, results, calls, db, call,
                   ret>>

\* snippets = prepare_snippets(raw_text, table_rows)
UploadPrepare ==
    /\ pc = "extracted"
    /\ snippets' =
         prepare_snippets(raw_text, table_rows, DefaultMaxSnippets).snippets
    /\ stages' = Append(stages, "assemble")
    /\ kwi' = 1
    /\ pc' = "resolve"
    /\ UNCHANGED <<doc, hit_pages, raw_text, table_rows, results, calls, db,
                   outcome, call, ret>>

\* one iteration of {kw: call_ai(kw, snippets) for kw in KEYWORDS}; an
\* exception leaves the comprehension and the route, and results is never bound
UploadCallAI ==
    /\ pc = "resolve"
    /\ kwi <= Len(KEYWORDS)
    /\ \E reply \in PipelineReplies :
         LET kw == KEYWORDS[kwi]
             r  == call_ai(kw, snippets, reply)
         IN  /\ calls' = Append(calls, [kw |-> kw, snippets |-> snippets,
                                        prompt |-> r.prompt, reply |-> reply])
             /\ IF r.raised
                THEN /\ pc' = "raised"
                     /\ outcome' = "error"
                     /\ results' = NoResults
                     /\ kwi' = kwi
                ELSE /\ pc' = pc
                     /\ outcome' = outcome
                     /\ results' = (kw :> r.value) @@ results
                     /\ kwi' = kwi + 1
    /\ stages' = Append(stages, "resolve")
    /\ UNCHANGED <<doc, hit_pages, raw_text, table_rows, snippets, db, call,
                   ret>>

\* INSERT INTO extracted_reports (filename, result_json); redirect to the
\* record's page
UploadStore ==
    /\ pc = "resolve"
    /\ kwi > Len(KEYWORDS)
    /\ db' = Append(db, [id |-> Len(db) + 1, result_json |-> results])
    /\ stages' = Append(stages, "store")
    /\ pc' = "done"
    /\ outcome' = "show_result"
    /\ UNCHANGED <<doc, hit_pages, raw_text, table_rows, snippets, kwi,
                   results, calls, call, ret>>

Next ==
    \/ UploadNoFile
    \/ UploadOpenError
    \/ UploadScan
    \/ UploadNoPages
    \/ UploadExtract
    \/ UploadPrepare
    \/ UploadCallAI
    \/ UploadStore

Spec == Init /\ [][Next]_vars

\* ------------------------------------------------------------------------
\* The functions on their own: inputs drawn from bounded sets, one call each
\* ------------------------------------------------------------------------
Idle ==
    /\ doc = Upload(FALSE, FALSE, <<>>)
    /\ hit_pages = <<>>
    /\ raw_text = <<>>
    /\ table_rows = <<>>
    /\ snippets = <<>>
    /\ kwi = 0
    /\ results = NoResults
    /\ calls = <<>>
    /\ db = <<>>
    /\ outcome = "pending"
    /\ stages = <<>>

Return(value) ==
    /\ pc = "called"
    /\ pc' = "returned"
    /\ ret' = value
    /\ UNCHANGED <<doc, hit_pages, raw_text, table_rows, snippets, kwi,
                   results, calls, db, outcome, stages, call>>

\* --- find_relevant_pages(pdf_path, keywords)
ScanChars == {"T", "t", "a"}

ScanPages == {Page(t, <<>>) : t \in Strings(ScanChars, MaxPageLen) \cup {None}}

\* keyword lists: the configured one, one with other cases and order, and
\* one whose only keyword is the empty string
ScanKeywordLists ==
    { KEYWORDS, << <<"t", "T">>, <<"A">> >>, << <<>> >> }

InitScan ==
    /\ Idle
    /\ pc = "called"
    /\ call \in {[fn |-> "find_relevant_pages", pages |-> ps, keywords |-> ks] :
                   ps \in Strings(ScanPages, MaxPages), ks \in ScanKeywordLists}
    /\ ret = NoCall

ScanCall == Return(find_relevant_pages(call.pages, call.keywords))

SpecScan == InitScan /\ [][ScanCall]_vars

\* --- extract_page_content(pdf_path, hit_pages)
ExtractPages ==
    { Page(None, <<>>),
      Page(<<"T", "a">>, <<>>),
      Page(<<"x">>, << <<RowLiabilities>> >>),
      Page(<<>>, << <<RowFiller>>, <<RowAssets, RowFiller>> >>) }

\* indices below, inside and above the page range of every document
HitIndices == (0 - 2)..(MaxPages + 1)

InitExtract ==
    /\ Idle
    /\ pc = "called"
    /\ call \in {[fn |-> "extract_page_content", pages |-> ps, hit_pages |-> hs] :
                   ps \in Strings(ExtractPages, MaxPages),
                   hs \in Strings(HitIndices, MaxHitLen)}
    /\ ret = NoCall

ExtractCall == Return(extract_page_content(call.pages, call.hit_pages))

SpecExtract == InitExtract /\ [][ExtractCall]_vars

\* --- find_contexts(text, keyword, window_chars)
ContextChars == {"a", "A", "x"}

ContextKeywords == { <<>>, <<"a">>, <<"A", "a">>, <<"a", "x">> }

InitContexts ==
    /\ Idle
    /\ pc = "called"
    /\ call \in {[fn |-> "find_contexts", text |-> t, keyword |-> k,
                  window_chars |-> w] :
                   t \in Strings(ContextChars, MaxTextLen),
                   k \in ContextKeywords, w \in 0..MaxRadius}
    /\ ret = NoCall

ContextsCall ==
    Return(find_contexts(call.text, call.keyword, call.window_chars))

SpecContexts == InitContexts /\ [][ContextsCall]_vars

\* --- prepare_snippets(raw_text, table_rows, max_snippets)
SnippetWords == { <<"T", "a">>, <<"t", "L">>, <<"p">>, <<"x", "\n">> }

RECURSIVE WordTexts(_)
\* texts of at most n words
WordTexts(n) ==
    IF n = 0 THEN {<<>>}
    ELSE LET shorter == WordTexts(n - 1)
         IN  shorter \cup {w \o t : w \in SnippetWords, t \in shorter}

SnippetRows ==
    { FlattenRow(RowLiabilities), FlattenRow(RowAssets), FlattenRow(RowFiller) }

InitSnippets ==
    /\ Idle
    /\ pc = "called"
    /\ call \in {[fn |-> "prepare_snippets", raw_text |-> t, table_rows |-> rs,
                  max_snippets |-> m] :
                   t \in WordTexts(MaxWords),
                   rs \in Strings(SnippetRows, MaxRowCount),
                   m \in 0..MaxBudget}
    /\ ret = NoCall

SnippetsCall ==
    Return(prepare_snippets(call.raw_text, call.table_rows, call.max_snippets))

SpecSnippets == InitSnippets /\ [][SnippetsCall]_vars

\* --- call_ai(kw, snippets)
ReplyChars == {" ", "\f", "[", "]", "1", "x"}

ServiceReplies ==
    { Reply("raise", <<>>), Reply("none", <<>>) }
    \cup { Reply("text", t) : t \in Strings(ReplyChars, MaxReplyLen) }

InitCallAI ==
    /\ Idle
    /\ pc = "called"
    /\ call \in {[fn |-> "call_ai", kw |-> KEYWORDS[k], snippets |-> sn,
                  reply |-> r] :
                   k \in 1..Len(KEYWORDS),
                   sn \in { <<>>, << <<"T", "a", "x">>, <<"x">> >> },
                   r \in ServiceReplies}
    /\ ret = NoCall

CallAICall == Return(call_ai(call.kw, call.snippets, call.reply))

SpecCallAI == InitCallAI /\ [][CallAICall]_vars

\* ------------------------------------------------------------------------
\* Properties of the pipeline run (Spec)
\* ------------------------------------------------------------------------
Range(f) == {f[x] : x \in DOMAIN f}

RunEnded == pc \in {"done", "raised"}

ScanFoundPages == "scan" \in Range(stages) /\ Len(hit_pages) > 0

CalledKeywords == [j \in 1..Len(calls) |-> calls[j].kw]

\* C1: every run whose scan is non-empty completes with exactly one
\* MetricRecord per keyword of the fixed list in the stored result mapping,
\* whatever the extraction-service calls do (a raising call included).
C1_OneRecordPerKeyword ==
    (RunEnded /\ ScanFoundPages) =>
        /\ pc = "done"
        /\ DOMAIN results = Range(KEYWORDS)
        /\ Len(db) = 1
        /\ db[1].result_json = results

\* C8: in every run whose scan is non-empty the extraction service is
\* invoked exactly once per keyword, in keyword-list order, none repeated,
\* whether a reply was valid JSON, malformed, or a failure.
C8_OneCallPerKeywordInOrder ==
    (RunEnded /\ ScanFoundPages) => CalledKeywords = KEYWORDS

\* C2: when the scan returns no page index the run halts right after the
\* scan with the "nothing found" signal, which is not an error: extraction,
\* snippet assembly, the extraction service and the result store are never
\* reached in that run.
C2_EmptyScanHalts ==
    (doc.file /\ doc.ok /\ pc # "request" /\ Len(hit_pages) = 0) =>
        /\ stages = <<"scan">>
        /\ calls = <<>>
        /\ db = <<>>
        /\ results = NoResults
        /\ pc \in {"scanned", "done"}
        /\ (pc = "done" => outcome = "no_pages")

C2_Witness ==
    /\ pc = "done"
    /\ outcome = "no_pages"
    /\ Len(doc.pages) = MaxPages
    /\ stages = <<"scan">>

\* a snippet that is keyword kw's own: a context window around an occurrence
\* of kw in the extracted text, or an extracted table row containing kw
OwnSnippet(s, kw) ==
    \/ s \in Range(find_contexts(raw_text, kw, DefaultWindowChars))
    \/ s \in Range(table_rows) /\ Contains(Lower(s), Lower(kw))

\* C10 as stated: the snippets in the prompt sent for keyword k are all k's
\* own snippets.
C10_OnlyOwnSnippets ==
    \A j \in 1..Len(calls) :
        \A s \in Range(calls[j].snippets) : OwnSnippet(s, calls[j].kw)

\* C10 (amended): every keyword's prompt names that keyword and carries the
\* one shared list returned by prepare_snippets, the same for all keywords;
\* each snippet of it is a context window around, or a table row containing,
\* SOME keyword of the fixed list, not necessarily the prompt's own.
C10_SharedSnippets ==
    \A j \in 1..Len(calls) :
        /\ calls[j].snippets = snippets
        /\ Contains(calls[j].prompt, calls[j].kw)
        /\ \A s \in Range(snippets) :
             /\ Contains(calls[j].prompt, s)
             /\ \E k \in 1..Len(KEYWORDS) : OwnSnippet(s, KEYWORDS[k])

C10_Witness ==
    /\ Len(calls) = Len(KEYWORDS)
    /\ Len(snippets) >= 2
    /\ \E j \in 1..Len(calls) :
         \E s \in Range(calls[j].snippets) : ~OwnSnippet(s, calls[j].kw)
    /\ \E s \in Range(snippets) : s \in Range(table_rows)

\* ------------------------------------------------------------------------
\* Properties of find_relevant_pages (SpecScan)
\* ------------------------------------------------------------------------
\* page i of the scanned document holds some keyword, ignoring case
ScanHit(i) ==
    \E k \in 1..Len(call.keywords) :
        Contains(Lower(OrEmpty(call.pages[i + 1].text)),
                 Lower(call.keywords[k]))

\* C5: the scan returns exactly the indices in [0, pageCount) of the pages
\* whose lower-cased text contains a lower-cased keyword, in strictly
\* increasing order; it is empty iff no page holds a keyword, and a page
\* without extractable text counts as empty text.
C5_ScanExact ==
    pc = "returned" =>
        LET n == Len(call.pages)
        IN  /\ Range(ret) = {i \in 0..(n - 1) : ScanHit(i)}
            /\ \A j \in 1..(Len(ret) - 1) : ret[j] < ret[j + 1]
            /\ (Len(ret) = 0 <=> \A i \in 0..(n - 1) : ~ScanHit(i))

C5_Witness ==
    /\ pc = "returned"
    /\ Len(call.pages) = MaxPages
    /\ call.pages[1].text = None
    /\ call.pages[MaxPages].text = <<"T", "a">>
    /\ call.keywords = KEYWORDS
    /\ ret = <<MaxPages - 1>>

\* ------------------------------------------------------------------------
\* Properties of extract_page_content (SpecExtract)
\* ------------------------------------------------------------------------
ValidHit(idx) == idx >= 0 /\ idx < Len(call.pages)

NonNegativeHits == \A j \in 1..Len(call.hit_pages) : call.hit_pages[j] >= 0

RECURSIVE RowsOfPages(_)
\* the flattened rows of the listed pages, page after page
RowsOfPages(ps) ==
    IF Len(ps) = 0 THEN <<>>
    ELSE FlattenTables(call.pages[ps[1] + 1].tables) \o RowsOfPages(Tail(ps))

MatchStarts == finditer(call.text, call.keyword, 0, <<>>)

\* C7: every context window is a contiguous piece text[lo:hi] that contains
\* its match [ms, me), with lo >= max(0, ms - r) and hi <= min(len, me + r),
\* so its length is at most 2*r + len(keyword).
C7_WindowBounds ==
    pc = "returned" =>
        LET r == call.window_chars
            n == Len(call.text)
            k == Len(call.keyword)
        IN  /\ Len(ret) = Len(MatchStarts)
            /\ \A i \in 1..Len(ret) :
                 LET ms == MatchStarts[i]
                     me == ms + k
                 IN  /\ Lower(SubSeq(call.text, ms + 1, me)) = Lower(call.keyword)
                     /\ Len(ret[i]) <= 2 * r + k
                     /\ \E lo \in 0..ms : \E hi \in me..n :
                          /\ lo >= ms - r
                          /\ hi <= me + r
                          /\ ret[i] = SubSeq(call.text, lo + 1, hi)

C7_Witness ==
    /\ pc = "returned"
    /\ call.window_chars > 0
    /\ Len(call.keyword) > 0
    /\ \E i \in 1..Len(ret) : MatchStarts[i] - call.window_chars < 0
    /\ \E i \in 1..Len(ret) :
         MatchStarts[i] + Len(call.keyword) + call.window_chars > Len(call.text)
    /\ \E i \in 1..Len(ret) :
         Len(ret[i]) = 2 * call.window_chars + Len(call.keyword)

\* ------------------------------------------------------------------------
\* Properties of prepare_snippets (SpecSnippets)
\* ------------------------------------------------------------------------
\* C3: the returned list has at most max_snippets entries, also when one
\* keyword alone contributes more.
C3_WithinBudget ==
    pc = "returned" => Len(ret.snippets) <= call.max_snippets

C3_Witness ==
    /\ pc = "returned"
    /\ call.max_snippets >= 1
    /\ ret.keywords_run = 1
    /\ Len(ret.accumulated) > call.max_snippets
    /\ Len(ret.snippets) = call.max_snippets

\* what one keyword contributes: its context windows, then its table rows
Contribution(kw) ==
    LET Has(row) == Contains(Lower(row), Lower(kw))
    IN  find_contexts(call.raw_text, kw, DefaultWindowChars)
        \o SelectSeq(call.table_rows, Has)

RECURSIVE Contributions(_)
\* the contributions of the first k keywords, in declared order
Contributions(k) ==
    IF k = 0 THEN <<>> ELSE Contributions(k - 1) \o Contribution(KEYWORDS[k])

\* the keyword at which the running total first reaches the budget
BudgetKeyword ==
    LET reached == {k \in 1..Len(KEYWORDS) :
                      Len(Contributions(k)) >= call.max_snippets}
    IN  IF reached = {} THEN Len(KEYWORDS)
        ELSE CHOOSE k \in reached : \A other \in reached : k <= other

\* C9: the result is the first max_snippets elements of the keywords'
\* contributions in declared order (windows, then rows); nothing of a
\* keyword after the one that reached the budget is accumulated, and that
\* keyword's snippets are kept up to the cap.
C9_PrefixOfContributions ==
    pc = "returned" =>
        LET all == Contributions(Len(KEYWORDS))
        IN  /\ ret.snippets =
                 SubSeq(all, 1, Min(call.max_snippets, Len(all)))
            /\ ret.keywords_run = BudgetKeyword
            /\ ret.accumulated = Contributions(BudgetKeyword)

C9_Witness ==
    /\ pc = "returned"
    /\ ret.keywords_run = 2
    /\ Len(Contribution(KEYWORDS[1])) = 0
    /\ Len(Contribution(KEYWORDS[3])) > 0
    /\ Len(ret.accumulated) > call.max_snippets
    /\ call.max_snippets >= 2
    /\ \E s \in Range(ret.snippets) : s \in Range(call.table_rows)

\* ------------------------------------------------------------------------
\* Properties of call_ai (SpecCallAI)
\* ------------------------------------------------------------------------
IsErrorRecord(rec) == rec.keys = {"error", "raw"} /\ rec.error # ""

AllWhitespace(s) == \A i \in 1..Len(s) : s[i] \in PyWhitespace

====
